---- MODULE Spec2Model ----
(***************************************************************************)
(* Model of the utility modules of the repository:                         *)
(*   - the request pipeline of helpers/axiosAPIWrapper.js (module load,    *)
(*     request interceptor, transport, response interceptors),             *)
(*   - the storage wrapper of helpers/censorUtils.js (getStorage, setItem, *)
(*     getItem, removeItem, clear),                                        *)
(*   - the environment-derived config object,                              *)
(*   - the string transforms (censor*, slugify, toTitleCase, ...).         *)
(* Two specifications: SpecPipe (startup + request pipeline + store) and   *)
(* SpecStr (the pure string functions applied to bounded inputs).          *)
(***************************************************************************)
EXTENDS Integers, Sequences, FiniteSets, TLC

VARIABLES env, config, api, fault, localStorage, sessionStorage, calls,
          fn, input, result

vars == <<env, config, api, fault, localStorage, sessionStorage, calls,
          fn, input, result>>

pipeVars == <<env, config, api, fault, localStorage, sessionStorage, calls>>

strVars == <<fn, input, result>>

(***************************************************************************)
(* Bounds                                                                  *)
(***************************************************************************)
\* number of apiRequest calls that may be in flight together
MaxCalls == 2

\* longest input string drawn for the string transforms
MaxLen == 4

(***************************************************************************)
(* JavaScript values of the pipeline part: a tag and a printable payload.  *)
(***************************************************************************)
\* marks "no such entry" (Storage.getItem null, unset env var, no header)
Absent == "<absent>"

\* marks a read of the store that threw instead of returning
StoreFaulted == "<fault>"

JStr(s) == [t |-> "string", s |-> s]

JNum(s) == [t |-> "number", s |-> s]

JBool(s) == [t |-> "boolean", s |-> s]

JNull == [t |-> "null", s |-> "null"]

JObj(s) == [t |-> "object", s |-> s]

\* JavaScript truthiness, as `if (authToken)` evaluates it
Truthy(v) ==
    CASE v.t = "null" -> FALSE
      [] v.t = "string" -> v.s # ""
      [] v.t = "number" -> v.s # "0"
      [] v.t = "boolean" -> v.s = "true"
      [] OTHER -> TRUE

\* string conversion of a template literal `${v}`
TemplateString(v) ==
    IF v.t = "object" THEN "[object Object]" ELSE v.s

\* JSON.parse on the raw strings the model stores: the parsed value, or
\* "SyntaxError" when the text is not JSON
JSONParse(raw) ==
    CASE raw = "0" -> JNum("0")
      [] raw = "150" -> JNum("150")
      [] raw = "true" -> JBool("true")
      [] raw = "false" -> JBool("false")
      [] raw = "null" -> JNull
      [] raw = "{}" -> JObj("{}")
      [] raw = "\"tok\"" -> JStr("tok")
      [] raw = "\"\"" -> JStr("")
      [] OTHER -> [t |-> "SyntaxError", s |-> raw]

\* JSON.stringify of a non-string value / of a string value
JSONStringify(v) ==
    IF v.t = "string" THEN "\"" \o v.s \o "\"" ELSE v.s

(***************************************************************************)
(* Storage wrapper (helpers/censorUtils.js, second half)                   *)
(***************************************************************************)
STORAGE_PREFIX == "my_app_"

StorageTypes == {"local", "session"}

\* the keys callers use in the model
Keys == {"auth", "k"}

PrefixedKeys == {STORAGE_PREFIX \o k : k \in Keys}

EmptyStorage == [pk \in PrefixedKeys |-> Absent]

\* getStorage that takes localStorage for any kind it does not know
getStorageLenient(type) ==
    IF type = "session" THEN [threw |-> FALSE, store |-> sessionStorage]
    ELSE [threw |-> FALSE, store |-> localStorage]

\* getStorage(type): the Storage object, or a thrown Error
getStorage(type) ==
    IF type = "local" THEN [threw |-> FALSE, store |-> localStorage]
    ELSE IF type = "session" THEN [threw |-> FALSE, store |-> sessionStorage]
    ELSE [threw |-> TRUE, store |-> EmptyStorage]

\* getItem(type, key); storeThrows: the underlying Storage.getItem throws
getItem(type, key, storeThrows) ==
    LET st == getStorage(type)
        prefixedKey == STORAGE_PREFIX \o key
    IN  IF st.threw \/ storeThrows THEN JNull
        ELSE LET stringValue == st.store[prefixedKey]
             IN  IF stringValue = Absent THEN JNull
                 ELSE LET parsed == JSONParse(stringValue)
                      IN  IF parsed.t = "SyntaxError" THEN JStr(stringValue)
                          ELSE parsed

\* the contents of the Storage object `type` after setItem(type, key, value)
setItemStore(type, key, value, storeThrows) ==
    LET st == getStorage(type)
        prefixedKey == STORAGE_PREFIX \o key
        stringValue == IF value.t = "string" THEN value.s ELSE JSONStringify(value)
    IN  IF st.threw \/ storeThrows THEN st.store
        ELSE [st.store EXCEPT ![prefixedKey] = stringValue]

setItem(type, key, value, storeThrows) ==
    /\ localStorage' = IF type = "local"
                       THEN setItemStore(type, key, value, storeThrows)
                       ELSE localStorage
    /\ sessionStorage' = IF type = "session"
                         THEN setItemStore(type, key, value, storeThrows)
                         ELSE sessionStorage

removeItemStore(type, key, storeThrows) ==
    LET st == getStorage(type)
        prefixedKey == STORAGE_PREFIX \o key
    IN  IF st.threw \/ storeThrows THEN st.store
        ELSE [st.store EXCEPT ![prefixedKey] = Absent]

removeItem(type, key, storeThrows) ==
    /\ localStorage' = IF type = "local"
                       THEN removeItemStore(type, key, storeThrows)
                       ELSE localStorage
    /\ sessionStorage' = IF type = "session"
                         THEN removeItemStore(type, key, storeThrows)
                         ELSE sessionStorage

(***************************************************************************)
(* Startup: environment, config object, request-pipeline module            *)
(***************************************************************************)
\* the environments the model starts in
Environments ==
    { [BASE_URL |-> Absent, VITE_BACK_URL |-> Absent],
      [BASE_URL |-> "", VITE_BACK_URL |-> ""],
      [BASE_URL |-> Absent, VITE_BACK_URL |-> "http://api.test"],
      [BASE_URL |-> "http://api.test", VITE_BACK_URL |-> Absent] }

DefaultBackend == "http://localhost:3001"

\* `x || dflt` on an environment string
OrDefault(x, dflt) == IF x = Absent \/ x = "" THEN dflt ELSE x

NoConfig == [created |-> FALSE, backend |-> Absent]

NoApi == [created |-> FALSE, baseURL |-> Absent]

\* evaluation of the module exporting `config`
LoadConfig ==
    /\ ~config.created
    /\ config' = [created |-> TRUE,
                  backend |-> OrDefault(env.VITE_BACK_URL, DefaultBackend)]
    /\ UNCHANGED <<env, api, fault, localStorage, sessionStorage, calls>>

\* a guard that only tests for an unset variable (lets '' through)
BaseUrlMissingUnsetOnly(url) == url = Absent

\* `!API_BASE_URL`
BaseUrlMissing(url) == url = Absent \/ url = ""

\* evaluation of the module axiosAPIWrapper.js: throws, or axios.create
LoadApiWrapper ==
    /\ ~api.created
    /\ fault = "none"
    /\ LET API_BASE_URL == env.BASE_URL
       IN  IF BaseUrlMissing(API_BASE_URL)
           THEN /\ fault' = "ConfigFault"
                /\ api' = api
           ELSE /\ api' = [created |-> TRUE, baseURL |-> API_BASE_URL]
                /\ fault' = fault
    /\ UNCHANGED <<env, config, localStorage, sessionStorage, calls>>

(***************************************************************************)
(* Request pipeline                                                        *)
(***************************************************************************)
CallIds == 1..MaxCalls

\* what the transport settles with
Response2xx == [kind |-> "Response", status |-> 200, body |-> "ok"]

TransportErrors ==
    { [kind |-> "ErrorResponse", status |-> 401, body |-> "unauthorized"],
      [kind |-> "NoResponse", status |-> 0, body |-> ""],
      [kind |-> "SetupFault", status |-> 0, body |-> ""] }

\* the exception raised when building or emitting a log record throws
LogError == [kind |-> "LogError", status |-> 0, body |-> ""]

Nothing == [kind |-> "none", status |-> 0, body |-> ""]

IdleCall ==
    [pc |-> "Idle", auth |-> Absent, credSeen |-> Absent, attempts |-> 0,
     transport |-> Nothing, pending |-> Nothing, settled |-> 0,
     outcome |-> "pending", value |-> Nothing,
     reqLogged |-> FALSE, respLogged |-> FALSE]

\* apiRequest(url, config): api(url, config) starts the promise chain
apiRequest(c) ==
    /\ api.created
    /\ calls[c].pc = "Idle"
    /\ calls' = [calls EXCEPT ![c].pc = "Building"]
    /\ UNCHANGED <<env, config, api, fault, localStorage, sessionStorage>>

\* the Authorization header the request interceptor leaves on the config
AuthHeader(authToken) ==
    IF Truthy(authToken) THEN "Bearer " \o TemplateString(authToken) ELSE Absent

\* request interceptor, fulfilled handler
RequestInterceptor(c, storeThrows, logThrows) ==
    /\ calls[c].pc = "Building"
    /\ LET authToken == getItem("local", "auth", storeThrows)
           seen == IF storeThrows THEN StoreFaulted
                   ELSE localStorage[STORAGE_PREFIX \o "auth"]
       IN  calls' = [calls EXCEPT
                ![c].auth = AuthHeader(authToken),
                ![c].credSeen = seen,
                ![c].reqLogged = ~logThrows,
                ![c].pending = IF logThrows THEN LogError ELSE Nothing,
                ![c].pc = IF logThrows THEN "Rejected" ELSE "Ready"]
    /\ UNCHANGED <<env, config, api, fault, localStorage, sessionStorage>>

\* dispatchRequest: the single hand-over to the transport
DispatchRequest(c) ==
    /\ calls[c].pc = "Ready"
    /\ calls' = [calls EXCEPT ![c].pc = "Dispatched",
                              ![c].attempts = @ + 1]
    /\ UNCHANGED <<env, config, api, fault, localStorage, sessionStorage>>

\* the transport settles: a 2xx response, or one of the rejections
TransportSettle(c, r) ==
    /\ calls[c].pc = "Dispatched"
    /\ calls' = [calls EXCEPT
            ![c].transport = r,
            ![c].pending = r,
            ![c].pc = IF r.kind = "Response" THEN "Fulfilled" ELSE "Rejected"]
    /\ UNCHANGED <<env, config, api, fault, localStorage, sessionStorage>>

\* the settlement a handler produces when its log statement throws or not
SettleFulfilled(call, logThrows) ==
    IF logThrows
    THEN [call EXCEPT !.pc = "Failed", !.settled = @ + 1,
                      !.outcome = "rejected", !.value = LogError,
                      !.pending = Nothing]
    ELSE [call EXCEPT !.pc = "Succeeded", !.settled = @ + 1,
                      !.outcome = "resolved", !.value = call.pending,
                      !.respLogged = TRUE, !.pending = Nothing]

\* response interceptor, handler for 2xx responses
ResponseInterceptor(c, logThrows) ==
    /\ calls[c].pc = "Fulfilled"
    /\ calls' = [calls EXCEPT ![c] = SettleFulfilled(calls[c], logThrows)]
    /\ UNCHANGED <<env, config, api, fault, localStorage, sessionStorage>>

SettleRejected(call, logThrows) ==
    IF logThrows
    THEN [call EXCEPT !.pc = "Failed", !.settled = @ + 1,
                      !.outcome = "rejected", !.value = LogError,
                      !.pending = Nothing]
    ELSE [call EXCEPT !.pc = "Failed", !.settled = @ + 1,
                      !.outcome = "rejected", !.value = call.pending,
                      !.respLogged = TRUE, !.pending = Nothing]

\* response interceptor, handler for rejections
ResponseInterceptorError(c, logThrows) ==
    /\ calls[c].pc = "Rejected"
    /\ calls' = [calls EXCEPT ![c] = SettleRejected(calls[c], logThrows)]
    /\ UNCHANGED <<env, config, api, fault, localStorage, sessionStorage>>

\* credential strings the application may put in the store under 'auth'
CredStrings == {"tok", "0"}

\* the application stores a credential
StoreCredential(s) ==
    /\ setItem("local", "auth", JStr(s), FALSE)
    /\ UNCHANGED <<env, config, api, fault, calls>>

\* the application drops the credential
DropCredential ==
    /\ localStorage[STORAGE_PREFIX \o "auth"] # Absent
    /\ removeItem("local", "auth", FALSE)
    /\ UNCHANGED <<env, config, api, fault, calls>>

StrIdle == fn = "none" /\ input = "none" /\ result = "none"

InitPipe ==
    /\ env \in Environments
    /\ config = NoConfig
    /\ api = NoApi
    /\ fault = "none"
    /\ localStorage = EmptyStorage
    /\ sessionStorage = EmptyStorage
    /\ calls = [c \in CallIds |-> IdleCall]
    /\ StrIdle

NextPipe ==
    \/ (LoadConfig /\ UNCHANGED strVars)
    \/ (LoadApiWrapper /\ UNCHANGED strVars)
    \/ \E c \in CallIds : apiRequest(c) /\ UNCHANGED strVars
    \/ \E c \in CallIds, st \in BOOLEAN, lg \in BOOLEAN :
          RequestInterceptor(c, st, lg) /\ UNCHANGED strVars
    \/ \E c \in CallIds : DispatchRequest(c) /\ UNCHANGED strVars
    \/ \E c \in CallIds, r \in {Response2xx} \cup TransportErrors :
          TransportSettle(c, r) /\ UNCHANGED strVars
    \/ \E c \in CallIds, lg \in BOOLEAN :
          ResponseInterceptor(c, lg) /\ UNCHANGED strVars
    \/ \E c \in CallIds, lg \in BOOLEAN :
          ResponseInterceptorError(c, lg) /\ UNCHANGED strVars
    \/ \E s \in CredStrings : StoreCredential(s) /\ UNCHANGED strVars
    \/ (DropCredential /\ UNCHANGED strVars)

SpecPipe == InitPipe /\ [][NextPipe]_vars

(***************************************************************************)
(* String transforms: JavaScript values and string primitives              *)
(* A string is a sequence of one-character strings.                        *)
(***************************************************************************)
Str(s) == [t |-> "string", s |-> s, hi |-> 0, lo |-> 0]

\* the number hi * 100000 + lo, with 0 <= lo < 100000
Num(hi, lo) == [t |-> "number", s |-> <<>>, hi |-> hi, lo |-> lo]

Null == [t |-> "null", s |-> <<>>, hi |-> 0, lo |-> 0]

Undefined == [t |-> "undefined", s |-> <<>>, hi |-> 0, lo |-> 0]

Bool(b) == [t |-> "boolean", s |-> IF b THEN <<"t">> ELSE <<"f">>, hi |-> 0, lo |-> 0]

\* a TypeError thrown to the caller
TypeError == [t |-> "TypeError", s |-> <<>>, hi |-> 0, lo |-> 0]

NotCalled == [t |-> "pending", s |-> <<>>, hi |-> 0, lo |-> 0]

LowerLetters ==
    <<"a","b","c","d","e","f","g","h","i","j","k","l","m",
      "n","o","p","q","r","s","t","u","v","w","x","y","z">>

UpperLetters ==
    <<"A","B","C","D","E","F","G","H","I","J","K","L","M",
      "N","O","P","Q","R","S","T","U","V","W","X","Y","Z">>

DigitChars == <<"0","1","2","3","4","5","6","7","8","9">>

Range(f) == {f[i] : i \in DOMAIN f}

\* [a-z], [A-Z], \d, \w, \s
IsLower(ch) == ch \in Range(LowerLetters)

IsUpper(ch) == ch \in Range(UpperLetters)

IsLetter(ch) == IsLower(ch) \/ IsUpper(ch)

IsDigit(ch) == ch \in Range(DigitChars)

IsWordChar(ch) == IsLetter(ch) \/ IsDigit(ch) \/ ch = "_"

IsSpace(ch) == ch \in {" ", "\t", "\n"}

LowerChar(ch) ==
    IF IsUpper(ch)
    THEN LowerLetters[CHOOSE i \in 1..26 : UpperLetters[i] = ch]
    ELSE ch

UpperChar(ch) ==
    IF IsLower(ch)
    THEN UpperLetters[CHOOSE i \in 1..26 : LowerLetters[i] = ch]
    ELSE ch

\* String.prototype.toLowerCase
Lower(s) == [i \in 1..Len(s) |-> LowerChar(s[i])]

SetMin(S) == CHOOSE x \in S : \A y \in S : x <= y

SetMax(S) == CHOOSE x \in S : \A y \in S : x >= y

\* String.prototype.trim
Trim(s) ==
    LET inked == {i \in 1..Len(s) : ~IsSpace(s[i])}
    IN  IF inked = {} THEN <<>> ELSE SubSeq(s, SetMin(inked), SetMax(inked))

\* the characters of s at the positions in keep, in order
RECURSIVE PickFrom(_, _, _)
PickFrom(s, keep, i) ==
    IF i > Len(s) THEN <<>>
    ELSE (IF i \in keep THEN <<s[i]>> ELSE <<>>) \o PickFrom(s, keep, i + 1)

\* s.replace(/\s+/g, rep) for a one-character rep
ReplaceSpaceRuns(s, rep) ==
    LET firstOfRun == {i \in 1..Len(s) :
                          ~(IsSpace(s[i]) /\ i > 1 /\ IsSpace(s[i - 1]))}
        kept == PickFrom(s, firstOfRun, 1)
    IN  [i \in 1..Len(kept) |-> IF IsSpace(kept[i]) THEN rep ELSE kept[i]]

\* s.replace(/--+/g, "-")
CollapseDashes(s) ==
    PickFrom(s, {i \in 1..Len(s) : ~(s[i] = "-" /\ i > 1 /\ s[i - 1] = "-")}, 1)

\* s.replace(/[^\w-]+/g, "")
StripNonWord(s) ==
    PickFrom(s, {i \in 1..Len(s) : IsWordChar(s[i]) \/ s[i] = "-"}, 1)

\* s.split(sep) for a one-character separator
RECURSIVE Split(_, _)
Split(s, sep) ==
    LET hits == {i \in 1..Len(s) : s[i] = sep}
    IN  IF hits = {} THEN <<s>>
        ELSE LET i == SetMin(hits)
             IN  <<SubSeq(s, 1, i - 1)>> \o Split(SubSeq(s, i + 1, Len(s)), sep)

\* parts.join(sep)
RECURSIVE Join(_, _)
Join(parts, sep) ==
    IF Len(parts) = 0 THEN <<>>
    ELSE IF Len(parts) = 1 THEN parts[1]
    ELSE parts[1] \o <<sep>> \o Join(Tail(parts), sep)

\* decimal digits of a natural number
RECURSIVE Digits(_)
Digits(n) ==
    IF n < 10 THEN <<DigitChars[n + 1]>>
    ELSE Digits(n \div 10) \o <<DigitChars[(n % 10) + 1]>>

\* the five low decimal digits, zero padded
Pad5(lo) ==
    <<DigitChars[((lo \div 10000) % 10) + 1], DigitChars[((lo \div 1000) % 10) + 1],
      DigitChars[((lo \div 100) % 10) + 1], DigitChars[((lo \div 10) % 10) + 1],
      DigitChars[(lo % 10) + 1]>>

\* String(v)
JSString(v) ==
    CASE v.t = "string" -> v.s
      [] v.t = "number" -> IF v.hi = 0 THEN Digits(v.lo)
                           ELSE Digits(v.hi) \o Pad5(v.lo)
      [] v.t = "null" -> <<"n","u","l","l">>
      [] v.t = "undefined" -> <<"u","n","d","e","f","i","n","e","d">>
      [] v.t = "boolean" -> IF v.s = <<"t">> THEN <<"t","r","u","e">>
                            ELSE <<"f","a","l","s","e">>
      [] OTHER -> <<>>

\* '*'.repeat(n)
Stars(n) == [i \in 1..n |-> "*"]

(***************************************************************************)
(* helpers/censorUtils.js: censoring                                       *)
(***************************************************************************)
\* censorWord with the middle one star too long
censorWordOffByOne(str) ==
    IF str.t # "string" \/ Len(str.s) = 0 THEN Str(<<>>)
    ELSE IF Len(str.s) = 1 THEN Str(<<"*">>)
    ELSE IF Len(str.s) = 2 THEN Str(<<str.s[1], "*">>)
    ELSE Str(<<str.s[1]>> \o Stars(Len(str.s) - 1) \o <<str.s[Len(str.s)]>>)

censorWord(str) ==
    IF str.t # "string" \/ Len(str.s) = 0 THEN Str(<<>>)
    ELSE IF Len(str.s) = 1 THEN Str(<<"*">>)
    ELSE IF Len(str.s) = 2 THEN Str(<<str.s[1], "*">>)
    ELSE Str(<<str.s[1]>> \o Stars(Len(str.s) - 2) \o <<str.s[Len(str.s)]>>)

\* length of the match of /^\+\d+/ on s, 0 when there is none
CountryCodeLength(s) ==
    IF Len(s) >= 2 /\ s[1] = "+" /\ IsDigit(s[2])
    THEN SetMax({j \in 2..Len(s) : \A i \in 2..j : IsDigit(s[i])})
    ELSE 0

censorPhone(number) ==
    LET n0 == IF number.t # "string" THEN JSString(number) ELSE number.s
        k == CountryCodeLength(n0)
        countryCode == SubSeq(n0, 1, k)
        rest == SubSeq(n0, k + 1, Len(n0))
    IN  Str(countryCode \o censorWord(Str(rest)).s)

\* censorEmail that leaves the domain label as it is
censorEmailPlainDomain(email) ==
    IF email.t # "string" \/ \A i \in 1..Len(email.s) : email.s[i] # "@"
    THEN email
    ELSE LET pieces == Split(email.s, "@")
             domainParts == Split(pieces[2], ".")
             tld == Join(Tail(domainParts), ".")
         IN  Str(censorWord(Str(pieces[1])).s \o <<"@">> \o domainParts[1]
                 \o (IF tld # <<>> THEN <<".">> \o tld ELSE <<>>))

censorEmail(email) ==
    IF email.t # "string" \/ \A i \in 1..Len(email.s) : email.s[i] # "@"
    THEN email
    ELSE LET pieces == Split(email.s, "@")
             local == pieces[1]
             domain == pieces[2]
             domainParts == Split(domain, ".")
             domainName == domainParts[1]
             tld == Join(Tail(domainParts), ".")
         IN  Str(censorWord(Str(local)).s \o <<"@">>
                 \o censorWord(Str(domainName)).s
                 \o (IF tld # <<>> THEN <<".">> \o tld ELSE <<>>))

\* censorFullName that splits without trimming first
censorFullNameNoTrim(name) ==
    IF name.t # "string" THEN Str(<<>>)
    ELSE LET parts == Split(ReplaceSpaceRuns(name.s, " "), " ")
             censored == [i \in 1..Len(parts) |-> censorWord(Str(parts[i])).s]
         IN  Str(Join(censored, " "))

censorFullName(name) ==
    IF name.t # "string" THEN Str(<<>>)
    ELSE LET parts == Split(ReplaceSpaceRuns(Trim(name.s), " "), " ")
             censored == [i \in 1..Len(parts) |-> censorWord(Str(parts[i])).s]
         IN  Str(Join(censored, " "))

(***************************************************************************)
(* String utilities (stringUtils): every one calls a String method on its  *)
(* argument, which throws a TypeError when the argument is not a string;   *)
(* the predicates hand it to RegExp.prototype.test, which converts it.     *)
(***************************************************************************)
trimSpaces(str) ==
    IF str.t # "string" THEN TypeError ELSE Str(Trim(str.s))

\* slugify with the dashes collapsed before the other characters are removed
slugifyCollapseFirst(str) ==
    IF str.t # "string" THEN TypeError
    ELSE Str(StripNonWord(CollapseDashes(
                 ReplaceSpaceRuns(Trim(Lower(str.s)), "-"))))

slugify(str) ==
    IF str.t # "string" THEN TypeError
    ELSE Str(CollapseDashes(StripNonWord(
                 ReplaceSpaceRuns(Trim(Lower(str.s)), "-"))))

toTitleCase(str) ==
    IF str.t # "string" THEN TypeError
    ELSE LET low == Lower(str.s)
         IN  Str([i \in 1..Len(low) |->
                    IF IsWordChar(low[i]) /\ (i = 1 \/ ~IsWordChar(low[i - 1]))
                    THEN UpperChar(low[i]) ELSE low[i]])

\* s.replace(/[A-Z]/g, m => '_' + m.toLowerCase())
RECURSIVE SnakeFrom(_, _)
SnakeFrom(s, i) ==
    IF i > Len(s) THEN <<>>
    ELSE (IF IsUpper(s[i]) THEN <<"_", LowerChar(s[i])>> ELSE <<s[i]>>)
         \o SnakeFrom(s, i + 1)

camelToSnake(str) ==
    IF str.t # "string" THEN TypeError ELSE Str(SnakeFrom(str.s, 1))

\* s.replace(/_([a-z])/g, (m, p1) => p1.toUpperCase())
RECURSIVE CamelFrom(_, _)
CamelFrom(s, i) ==
    IF i > Len(s) THEN <<>>
    ELSE IF s[i] = "_" /\ i < Len(s) /\ IsLower(s[i + 1])
         THEN <<UpperChar(s[i + 1])>> \o CamelFrom(s, i + 2)
         ELSE <<s[i]>> \o CamelFrom(s, i + 1)

snakeToCamel(str) ==
    IF str.t # "string" THEN TypeError ELSE Str(CamelFrom(str.s, 1))

sanitizeFileName(str) ==
    IF str.t # "string" THEN TypeError
    ELSE LET u == ReplaceSpaceRuns(str.s, "_")
         IN  Str(PickFrom(u, {i \in 1..Len(u) :
                     IsLetter(u[i]) \/ IsDigit(u[i]) \/ u[i] = "_"}, 1))

\* /^[a-zA-Z0-9._-]+@[a-zA-Z0-9.-]+\.[a-zA-Z]{2,6}$/
EmailPattern(s) ==
    \E a \in 1..Len(s), d \in 1..Len(s) :
        /\ a >= 2
        /\ \A i \in 1..(a - 1) :
               IsLetter(s[i]) \/ IsDigit(s[i]) \/ s[i] \in {".", "_", "-"}
        /\ s[a] = "@"
        /\ d >= a + 2
        /\ \A i \in (a + 1)..(d - 1) :
               IsLetter(s[i]) \/ IsDigit(s[i]) \/ s[i] \in {".", "-"}
        /\ s[d] = "."
        /\ Len(s) - d \in 2..6
        /\ \A i \in (d + 1)..Len(s) : IsLetter(s[i])

isValidEmail(str) == Bool(EmailPattern(JSString(str)))

\* /^[0-9]{10}$/
isValidPhoneNumber(str) ==
    LET s == JSString(str)
    IN  Bool(Len(s) = 10 /\ \A i \in 1..Len(s) : IsDigit(s[i]))

\* /^[A-Za-z]+$/
isAlphabetic(str) ==
    LET s == JSString(str)
    IN  Bool(Len(s) >= 1 /\ \A i \in 1..Len(s) : IsLetter(s[i]))

\* /^[A-Za-z0-9]+$/
isAlphanumeric(str) ==
    LET s == JSString(str)
    IN  Bool(Len(s) >= 1 /\ \A i \in 1..Len(s) : IsLetter(s[i]) \/ IsDigit(s[i]))

(***************************************************************************)
(* SpecStr: one call of one string function on a bounded input             *)
(***************************************************************************)
\* characters the generated inputs are made of
Alphabet == {"a", "B", "1", " ", "-", "@", ".", "+"}

StringsUpTo(n) == UNION {[1..k -> Alphabet] : k \in 0..n}

\* the inputs of the documented examples
ExamplePhone == <<"+","1","2","3","4","5","6","7","8","9","0">>

ExamplePhoneNumber == Num(98765, 43210)

ExampleEmail ==
    <<"j","o","h","n",".","d","o","e","@","e","x","a","m","p","l","e",".","c","o","m">>

ExampleShortEmail == <<"a","@","b",".","c","o","m">>

ExampleWord == <<"h","e","l","l","o">>

ExampleTitle == <<"H","e","l","l","o"," "," "," ","W","o","r","l","d","!","!">>

ExampleDigits == <<"1","2","3","4","5","6","7","8","9","0">>

ExampleName == <<"J","o","h","n"," ","D","o","e">>

ExampleSnake == <<"u","s","e","r","_","n","a","m","e">>

ExampleInitials == <<"A"," ","B">>

ExampleStrings ==
    {ExamplePhone, ExampleEmail, ExampleShortEmail, ExampleWord, ExampleTitle,
     ExampleDigits, ExampleName, ExampleSnake, ExampleInitials}

NonStrings == {Null, Undefined, Num(0, 5), ExamplePhoneNumber, Bool(TRUE)}

Inputs == {Str(s) : s \in StringsUpTo(MaxLen) \cup ExampleStrings} \cup NonStrings

PipeIdle ==
    /\ env = [BASE_URL |-> Absent, VITE_BACK_URL |-> Absent]
    /\ config = NoConfig
    /\ api = NoApi
    /\ fault = "none"
    /\ localStorage = EmptyStorage
    /\ sessionStorage = EmptyStorage
    /\ calls = [c \in CallIds |-> IdleCall]

InitStr ==
    /\ fn = "none"
    /\ input \in Inputs
    /\ result = NotCalled
    /\ PipeIdle

\* the caller applies function `name`, whose value on the input is `value`
Apply(name, value) ==
    /\ fn = "none"
    /\ fn' = name
    /\ result' = value
    /\ UNCHANGED <<input, env, config, api, fault, localStorage,
                   sessionStorage, calls>>

\* the caller passes the slug it got back through slugify once more
SlugifyAgain ==
    /\ fn = "slugify"
    /\ result.t = "string"
    /\ fn' = "slugifyTwice"
    /\ result' = slugify(result)
    /\ UNCHANGED <<input, env, config, api, fault, localStorage,
                   sessionStorage, calls>>

NextStr ==
    \/ Apply("censorWord", censorWord(input))
    \/ Apply("censorPhone", censorPhone(input))
    \/ Apply("censorEmail", censorEmail(input))
    \/ Apply("censorFullName", censorFullName(input))
    \/ Apply("trimSpaces", trimSpaces(input))
    \/ Apply("slugify", slugify(input))
    \/ SlugifyAgain
    \/ Apply("toTitleCase", toTitleCase(input))
    \/ Apply("camelToSnake", camelToSnake(input))
    \/ Apply("snakeToCamel", snakeToCamel(input))
    \/ Apply("sanitizeFileName", sanitizeFileName(input))
    \/ Apply("isValidEmail", isValidEmail(input))
    \/ Apply("isValidPhoneNumber", isValidPhoneNumber(input))
    \/ Apply("isAlphabetic", isAlphabetic(input))
    \/ Apply("isAlphanumeric", isAlphanumeric(input))

SpecStr == InitStr /\ [][NextStr]_vars

(***************************************************************************)
(* SpecStore: callers of the storage wrapper. Each action is one call of   *)
(* one wrapper function; fn, input and result record the call, its         *)
(* arguments and what came back to the caller. One apiRequest runs beside  *)
(* them up to its hand-over to the transport.                              *)
(***************************************************************************)
JUndefined == [t |-> "undefined", s |-> "undefined"]

\* what a wrapper call gives its caller: every wrapper body is inside a
\* try/catch, so a call always returns (threw is never set)
Returned(v) == [threw |-> FALSE, ret |-> v]

\* the contents of the Storage object `type` after clear(type)
clearStore(type, storeThrows) ==
    LET st == getStorage(type)
    IN  IF st.threw \/ storeThrows THEN st.store ELSE EmptyStorage

clear(type, storeThrows) ==
    /\ localStorage' = IF type = "local" THEN clearStore(type, storeThrows)
                       ELSE localStorage
    /\ sessionStorage' = IF type = "session" THEN clearStore(type, storeThrows)
                         ELSE sessionStorage

\* the keys a Storage object holds
HeldKeys(store) == {pk \in DOMAIN store : store[pk] # Absent}

CountText == <<"0", "1", "2", "3">>

\* length(type)
length(type, storeThrows) ==
    LET st == getStorage(type)
    IN  IF st.threw \/ storeThrows THEN JNum("-1")
        ELSE JNum(CountText[Cardinality(HeldKeys(st.store)) + 1])

\* the caller's key for a prefixed key (every key of the model has the prefix)
Unprefixed(pk) == CHOOSE k \in Keys : STORAGE_PREFIX \o k = pk

\* key(type, index) when Storage.key(index) answers `held` (a held key, in
\* the order the browser chose, or Absent past the end)
key(type, held, storeThrows) ==
    LET st == getStorage(type)
    IN  IF st.threw \/ storeThrows THEN JNull
        ELSE IF held = Absent THEN JNull
        ELSE JStr(Unprefixed(held))

\* the values callers store
StoredValues == {JStr("tok"), JStr("0"), JNum("150")}

\* the kinds callers pass: the two valid ones and one that is neither
TypeArgs == StorageTypes \cup {"cookie"}

NoArgs == [type |-> "", key |-> "", index |-> 0, value |-> JUndefined,
           storeThrows |-> FALSE]

Args(type, k, index, value, storeThrows) ==
    [type |-> type, key |-> k, index |-> index, value |-> value,
     storeThrows |-> storeThrows]

CallSetItem(type, k, value, storeThrows) ==
    /\ setItem(type, k, value, storeThrows)
    /\ fn' = "setItem"
    /\ input' = Args(type, k, 0, value, storeThrows)
    /\ result' = Returned(JUndefined)
    /\ UNCHANGED <<env, config, api, fault, calls>>

CallGetItem(type, k, storeThrows) ==
    /\ fn' = "getItem"
    /\ input' = Args(type, k, 0, JUndefined, storeThrows)
    /\ result' = Returned(getItem(type, k, storeThrows))
    /\ UNCHANGED <<env, config, api, fault, calls, localStorage, sessionStorage>>

CallRemoveItem(type, k, storeThrows) ==
    /\ removeItem(type, k, storeThrows)
    /\ fn' = "removeItem"
    /\ input' = Args(type, k, 0, JUndefined, storeThrows)
    /\ result' = Returned(JUndefined)
    /\ UNCHANGED <<env, config, api, fault, calls>>

CallClear(type, storeThrows) ==
    /\ clear(type, storeThrows)
    /\ fn' = "clear"
    /\ input' = Args(type, "", 0, JUndefined, storeThrows)
    /\ result' = Returned(JUndefined)
    /\ UNCHANGED <<env, config, api, fault, calls>>

CallKey(type, index, storeThrows) ==
    /\ \E held \in IF getStorage(type).threw
                   THEN {Absent}
                   ELSE IF index < Cardinality(HeldKeys(getStorage(type).store))
                        THEN HeldKeys(getStorage(type).store)
                        ELSE {Absent} :
           result' = Returned(key(type, held, storeThrows))
    /\ fn' = "key"
    /\ input' = Args(type, "", index, JUndefined, storeThrows)
    /\ UNCHANGED <<env, config, api, fault, calls, localStorage, sessionStorage>>

CallLength(type, storeThrows) ==
    /\ fn' = "length"
    /\ input' = Args(type, "", 0, JUndefined, storeThrows)
    /\ result' = Returned(length(type, storeThrows))
    /\ UNCHANGED <<env, config, api, fault, calls, localStorage, sessionStorage>>

\* the state after a successful startup, before any storage call
InitStore ==
    /\ env = [BASE_URL |-> "http://api.test", VITE_BACK_URL |-> Absent]
    /\ config = NoConfig
    /\ api = [created |-> TRUE, baseURL |-> "http://api.test"]
    /\ fault = "none"
    /\ localStorage = EmptyStorage
    /\ sessionStorage = EmptyStorage
    /\ calls = [c \in CallIds |-> IdleCall]
    /\ fn = "none"
    /\ input = NoArgs
    /\ result = Returned(JUndefined)

\* the (kind, key) pairs callers address
SlotArgs ==
    {<<"local", "auth">>, <<"local", "k">>, <<"session", "k">>, <<"cookie", "k">>}

NextStore ==
    \/ \E a \in SlotArgs, v \in StoredValues, st \in BOOLEAN :
          CallSetItem(a[1], a[2], v, st)
    \/ \E a \in SlotArgs, st \in BOOLEAN : CallGetItem(a[1], a[2], st)
    \/ \E a \in SlotArgs, st \in BOOLEAN : CallRemoveItem(a[1], a[2], st)
    \/ \E ty \in TypeArgs, st \in BOOLEAN : CallClear(ty, st)
    \/ \E ty \in TypeArgs, i \in 0..1, st \in BOOLEAN : CallKey(ty, i, st)
    \/ \E ty \in TypeArgs, st \in BOOLEAN : CallLength(ty, st)
    \/ (apiRequest(1) /\ UNCHANGED strVars)
    \/ \E st \in BOOLEAN, lg \in BOOLEAN :
          RequestInterceptor(1, st, lg) /\ UNCHANGED strVars
    \/ (DispatchRequest(1) /\ UNCHANGED strVars)

SpecStore == InitStore /\ [][NextStore]_vars

(***************************************************************************)
(* Message lookup (showMessage). The catalogs messages_en and messages_hi  *)
(* are data modules; the model takes every small catalog for each: a key   *)
(* may be missing, be the empty string or have a text.                     *)
(***************************************************************************)
\* message keys the catalogs may define
MsgKeys == {"welcome", "bye"}

\* properties every plain object inherits from Object.prototype
ProtoProps == {"constructor"}

EnTexts == {Absent, "", "Hello"}

HiTexts == {Absent, "", "Namaste"}

\* the argument was left out (undefined)
Omitted == "<omitted>"

JFunction == [t |-> "function", s |-> "function"]

UnknownMessage == JStr("Unknown message")

\* the call: its argument object and the two imported catalogs
MsgInputs ==
    [message : MsgKeys \cup ProtoProps,
     language : {Omitted, "en", "hi", "fr", "constructor"},
     en : [MsgKeys -> EnTexts],
     hi : [MsgKeys -> HiTexts]]

\* obj[prop] on a catalog: an own entry, an inherited property, or undefined
CatalogEntry(table, prop) ==
    IF prop \in MsgKeys /\ table[prop] # Absent THEN JStr(table[prop])
    ELSE IF prop \in ProtoProps THEN JFunction
    ELSE JUndefined

\* allMessages[language]: one of the two catalogs, an inherited property of
\* the allMessages object, or undefined
CatalogFor(in, language) ==
    IF language = "en" THEN [kind |-> "catalog", table |-> in.en]
    ELSE IF language = "hi" THEN [kind |-> "catalog", table |-> in.hi]
    ELSE IF language \in ProtoProps THEN [kind |-> "function", table |-> in.en]
    ELSE [kind |-> "undefined", table |-> in.en]

showMessage(in) ==
    LET language == IF in.language = Omitted THEN "en" ELSE in.language
        found == CatalogFor(in, language)
        messages == IF found.kind = "undefined" THEN CatalogFor(in, "en")
                    ELSE found
        entry == IF messages.kind = "catalog"
                 THEN CatalogEntry(messages.table, in.message)
                 ELSE IF in.message \in ProtoProps THEN JFunction
                 ELSE JUndefined
    IN  IF Truthy(entry) THEN entry ELSE UnknownMessage

InitMsg ==
    /\ fn = "none"
    /\ input \in MsgInputs
    /\ result = JUndefined
    /\ PipeIdle

CallShowMessage ==
    /\ fn = "none"
    /\ fn' = "showMessage"
    /\ result' = showMessage(input)
    /\ UNCHANGED <<input, env, config, api, fault, localStorage,
                   sessionStorage, calls>>

NextMsg == CallShowMessage

SpecMsg == InitMsg /\ [][NextMsg]_vars

(***************************************************************************)
(* Claims about startup and the request pipeline (checked under SpecPipe)  *)
(***************************************************************************)
Settled(c) == calls[c].pc \in {"Succeeded", "Failed"}

\* C1: every request handed to the transport carries
\* Authorization = 'Bearer ' + credential exactly when a credential string
\* is stored under 'auth' in the local store (whatever that string is), and
\* carries no Authorization header when none is stored.
C1_AuthIffCredential ==
    \A c \in CallIds :
        calls[c].attempts > 0 =>
            calls[c].auth = IF calls[c].credSeen \notin {Absent, StoreFaulted}
                            THEN "Bearer " \o calls[c].credSeen
                            ELSE Absent

\* C2: each call makes exactly one transport attempt and settles exactly
\* once, going Building -> Dispatched -> Succeeded/Failed; when the
\* transport rejected, the caller is rejected with that very error (status
\* and body included) after it has been logged.
C2_SingleAttemptAndReraise ==
    \A c \in CallIds :
        /\ calls[c].attempts <= 1
        /\ calls[c].settled <= 1
        /\ Settled(c) => calls[c].attempts = 1 /\ calls[c].settled = 1
        /\ (Settled(c) /\ calls[c].transport \in TransportErrors) =>
               /\ calls[c].outcome = "rejected"
               /\ calls[c].value = calls[c].transport
               /\ calls[c].respLogged

C4_LoggingBestEffort ==
    \A c \in CallIds :
        /\ calls[c].pending # LogError
        /\ Settled(c) =>
               /\ calls[c].attempts = 1
               /\ calls[c].value = calls[c].transport
               /\ calls[c].outcome = IF calls[c].transport = Response2xx
                                     THEN "resolved" ELSE "rejected"

(***************************************************************************)
(* Claims about the string transforms (checked under SpecStr)              *)
(***************************************************************************)
\* C5: censorWord follows the policy table on every string: '' for length
\* 0, '*' for length 1, first character + '*' for length 2, and first
\* character, length-2 stars, last character from length 3 on; the output
\* is as long as the input.
C5_CensorWordTable ==
    (fn = "censorWord" /\ input.t = "string") =>
        LET s == input.s
            r == result.s
            n == Len(input.s)
        IN  /\ result.t = "string"
            /\ Len(r) = n
            /\ n = 1 => r = <<"*">>
            /\ n = 2 => r = <<s[1], "*">>
            /\ n >= 3 => /\ r[1] = s[1]
                         /\ r[n] = s[n]
                         /\ \A i \in 2..(n - 1) : r[i] = "*"

\* C5 witness: censorWord('hello') has returned 'h***o'.
C5_Witness ==
    /\ fn = "censorWord"
    /\ input = Str(ExampleWord)
    /\ result = Str(<<"h","*","*","*","o">>)

\* C6: censorPhone('+1234567890') returns '+1********0' (country code kept,
\* national number censored) and censorPhone(9876543210) returns
\* '9********0'.
C6_PhoneExamples ==
    fn = "censorPhone" =>
        /\ input = Str(ExamplePhone) =>
               result = Str(<<"+","1","*","*","*","*","*","*","*","*","0">>)
        /\ input = ExamplePhoneNumber =>
               result = Str(<<"9","*","*","*","*","*","*","*","*","0">>)

\* C7: on a string with exactly one '@', censorEmail returns
\* censorWord(local part) + '@' + censorWord(first domain label) + the rest
\* of the domain from its first dot on, verbatim (same length as the input
\* when local part and label are non-empty); a string without '@' comes
\* back unchanged.
C7_EmailShape ==
    (fn = "censorEmail" /\ input.t = "string") =>
        LET s == input.s
            ats == {i \in 1..Len(s) : s[i] = "@"}
        IN  /\ ats = {} => result = input
            /\ Cardinality(ats) = 1 =>
                   LET a == SetMin(ats)
                       localPart == SubSeq(s, 1, a - 1)
                       dom == SubSeq(s, a + 1, Len(s))
                       dots == {i \in 1..Len(dom) : dom[i] = "."}
                       f == IF dots = {} THEN Len(dom) + 1 ELSE SetMin(dots)
                       label == SubSeq(dom, 1, f - 1)
                       rest == SubSeq(dom, f, Len(dom))
                   IN  /\ result = Str(censorWord(Str(localPart)).s \o <<"@">>
                                       \o censorWord(Str(label)).s \o rest)
                       /\ (localPart # <<>> /\ label # <<>>) =>
                              Len(result.s) = Len(s)

C9_Total ==
    fn # "none" => result.t # "TypeError"

\* C10: slugify is idempotent: applying slugify to a slug returns the
\* same slug.
C10_SlugifyIdempotent ==
    [][(fn = "slugify" /\ fn' = "slugifyTwice") => result' = result]_vars

\* C10 witness: 'Hello   World!!' has gone through slugify twice and is
\* 'hello-world'.
C10_Witness ==
    /\ fn = "slugifyTwice"
    /\ input = Str(ExampleTitle)
    /\ result = Str(<<"h","e","l","l","o","-","w","o","r","l","d">>)

\* the maximal runs of non-whitespace characters of s, in order
RECURSIVE Words(_)
Words(s) ==
    IF s = <<>> THEN <<>>
    ELSE IF IsSpace(s[1]) THEN Words(Tail(s))
    ELSE LET stops == {i \in 1..Len(s) : IsSpace(s[i])}
             n == IF stops = {} THEN Len(s) ELSE SetMin(stops) - 1
         IN  <<SubSeq(s, 1, n)>> \o Words(SubSeq(s, n + 1, Len(s)))

\* the result is the input's tokens, each censored by censorWord on its own,
\* joined by single spaces: as many tokens, each of its length, and no
\* leading, trailing or repeated space
TokenwiseCensored ==
    LET words == Words(input.s)
        out == Words(result.s)
        r == result.s
    IN  /\ result = Str(Join([i \in 1..Len(words) |->
                                 censorWord(Str(words[i])).s], " "))
        /\ Len(out) = Len(words)
        /\ \A i \in 1..Len(words) : Len(out[i]) = Len(words[i])
        /\ r # <<>> => ~IsSpace(r[1]) /\ ~IsSpace(r[Len(r)])
        /\ \A i \in 1..(Len(r) - 1) : ~(IsSpace(r[i]) /\ IsSpace(r[i + 1]))

C13_IsolationStep ==
    \A c \in CallIds :
        /\ calls'[c] # calls[c] => \A d \in CallIds \ {c} : calls'[d] = calls[d]
        /\ (calls[c].pc = "Building" /\ calls'[c].pc # "Building") =>
               calls'[c].auth =
                   AuthHeader(getItem("local", "auth",
                                      calls'[c].credSeen = StoreFaulted))

\* C13, own outcome: a call that settles does so with the outcome of its
\* own transport attempt.
C13_OwnOutcomeStep ==
    \A c \in CallIds :
        calls'[c].pc \in {"Succeeded", "Failed"} =>
            /\ calls'[c].attempts = 1
            /\ calls'[c].value = calls'[c].transport

\* C13: concurrent calls do not interfere: under every interleaving of
\* request steps, credential writes and transport completions each call
\* carries the header of the credential stored when its request step ran
\* and settles with the outcome of its own transport attempt; no call
\* alters another.
C13_CallsDoNotInterfere ==
    [][C13_IsolationStep /\ C13_OwnOutcomeStep]_vars

(***************************************************************************)
(* Claims about the storage wrapper (checked under SpecStore)              *)
(***************************************************************************)
WrapperCalls == {"setItem", "getItem", "removeItem", "clear", "key", "length"}

\* what a wrapper call answers when it could not use the store
NeutralResult(f) ==
    CASE f \in {"getItem", "key"} -> JNull
      [] f = "length" -> JNum("-1")
      [] OTHER -> JUndefined

\* C11 (as stated): a wrapper call with a kind other than 'local' or
\* 'session' fails with an error that reaches the caller.
C11_InvalidKindReachesCaller ==
    (fn \in WrapperCalls /\ input.type \notin StorageTypes) => result.threw

\* C11 (amended): a wrapper call with a kind other than 'local' or
\* 'session' never throws to the caller: the error of getStorage is caught
\* and logged, getItem and key return null, length returns -1, setItem,
\* removeItem and clear return normally, and neither store is modified.
C11_InvalidKindIsCaught ==
    [][(fn' \in WrapperCalls /\ input'.type \notin StorageTypes) =>
          /\ ~result'.threw
          /\ result'.ret = NeutralResult(fn')
          /\ localStorage' = localStorage
          /\ sessionStorage' = sessionStorage]_vars

\* C11 witness: length('cookie') has returned -1 while the local store
\* holds an entry.
C11_Witness ==
    /\ fn = "length"
    /\ input.type = "cookie"
    /\ result = Returned(JNum("-1"))
    /\ HeldKeys(localStorage) # {}

\* C12, wrapper part: a wrapper call on a valid kind whose store throws
\* returns null (getItem, key), -1 (length) or normally (setItem,
\* removeItem, clear) and leaves both stores as they were.
C12_WrapperStep ==
    (fn' \in WrapperCalls /\ input'.type \in StorageTypes /\ input'.storeThrows) =>
        /\ ~result'.threw
        /\ result'.ret = NeutralResult(fn')
        /\ localStorage' = localStorage
        /\ sessionStorage' = sessionStorage

\* C12, pipeline part: a request whose credential read hit a store fault
\* has no Authorization header and goes on to the transport.
C12_PipelineStep ==
    calls'[1].credSeen = StoreFaulted =>
        /\ calls'[1].auth = Absent
        /\ calls'[1].pc \in {"Ready", "Dispatched"}

\* C12: a store fault on a valid kind never reaches the caller (neutral
\* result, contents unchanged), so a fault while reading the credential
\* makes the pipeline omit the Authorization header and still dispatch.
C12_StoreFaultNeverPropagates ==
    [][C12_WrapperStep /\ C12_PipelineStep]_vars

\* the value getItem reads back from slot a (a kind and a key)
ReadBack(a) == getItem(a[1], a[2], FALSE)

ValidSlots == {a \in SlotArgs : a[1] \in StorageTypes}

\* the call just made is one that the claim lets change slot a
Touches(f, in, a) ==
    \/ f \in {"setItem", "removeItem"} /\ in.type = a[1] /\ in.key = a[2]
    \/ f = "clear" /\ in.type = a[1]

\* C16: on a working store, getItem(kind, k) after setItem(kind, k, v)
\* returns a value equal to v, and null after removeItem(kind, k) or
\* clear(kind); calls on the other kind or on other keys do not change
\* what getItem(kind, k) returns.
C16_RoundTrip ==
    [][\A a \in ValidSlots :
          /\ (fn' = "setItem" /\ Touches(fn', input', a) /\ ~input'.storeThrows) =>
                 ReadBack(a)' = input'.value
          /\ (fn' \in {"removeItem", "clear"} /\ Touches(fn', input', a)
                  /\ ~input'.storeThrows) =>
                 ReadBack(a)' = JNull
          /\ ~Touches(fn', input', a) => ReadBack(a)' = ReadBack(a)]_vars

====
